---- MODULE Spec2Model ----
(***************************************************************************)
(* Model of the orchestration core of the repository:                      *)
(*   src/app/orchestrator/agent_orchestrator.py  (AgentOrchestrator)       *)
(*   src/app/storage/context_store.py            (ContextStore)            *)
(*                                                                         *)
(* Reading of the source that the model rests on.                          *)
(*  - The compiled LangGraph workflow is modelled as the graph that        *)
(*    _build_workflow declares: entry node parse_intent; from parse_intent *)
(*    the edge whose condition (a _should_route_to_ method) holds is       *)
(*    followed, and                                                        *)
(*    the run ends when none holds; after an agent node _check_completion  *)
(*    chooses END (True) or parse_intent (False).  The state of the run is *)
(*    the AgentState the last node returned.  The graph library itself is  *)
(*    not part of the repository; no step limit of the library is assumed. *)
(*  - The construction of an AgentState from state.dict() unpacked as      *)
(*    keywords plus one more keyword (field=value) is modelled as the copy *)
(*    of state with that one field replaced, which is what the nodes are   *)
(*    written to do.  Evaluated literally by CPython, the call repeats a   *)
(*    keyword that state.dict() already holds.                             *)
(*  - Python values: Optional[T] is a sequence of length <= 1 (None is     *)
(*    <<>>, a value x is <<x>>); a dict is a function on its keys; text    *)
(*    that the code manipulates (the classifier's answer) is a sequence of *)
(*    one-character strings; other strings are opaque.                     *)
(*  - The Redis server and the JSON codec are not part of the repository.  *)
(*    They are modelled by what the commands and calls that the store uses *)
(*    do: setex and expire set the expiry time of a key to the time of the *)
(*    command plus the given seconds, a key is gone once the time is past  *)
(*    its expiry time, a command that fails raises and is not carried out. *)
(***************************************************************************)
EXTENDS Naturals, Sequences, FiniteSets, TLC

VARIABLES
    memory_store,       \* ContextStore.memory_store: session id -> context
    memory_timestamps,  \* ContextStore.memory_timestamps: session id -> time
    now,                \* time.time()
    ticks,              \* number of clock advances so far (bounded)
    pc,                 \* where the current run_workflow call stands
    session_id,         \* run_workflow's local session_id
    state,              \* the AgentState of the running workflow
    result,             \* the envelope run_workflow returned, None while it runs
    calls,              \* number of run_workflow calls started so far
    dispatched,         \* number of handler invocations so far, in all calls
    api,                \* observation of the store's interface: the last
                        \* call made on it with what it returned, and for
                        \* each session what was last written and when it
                        \* was last written or successfully read
    other,              \* the locals (pc, session_id, state, result, trace)
                        \* of a second caller of run_workflow or of the
                        \* store, suspended while the first one runs
    redis,              \* the Redis server behind a ContextStore built with
                        \* USE_REDIS=true: its keys with their values and
                        \* expiry times, and the last call made on that
                        \* ContextStore with what it returned
    trace               \* observation of the current call: its session_id
                        \* argument, what the store held for the session
                        \* before it, the number of classifier calls and the
                        \* last answer, the handlers' outcomes, the store
                        \* calls and which of them failed

vars == <<memory_store, memory_timestamps, now, ticks, pc, session_id, state,
          result, calls, dispatched, api, other, redis, trace>>

-----------------------------------------------------------------------------
(* Bounds of the model.                                                    *)

MaxCalls == 2
MaxDispatch == 2
MaxTicks == 1
MaxChainDispatch == 7
MaxStoreTicks == 2

(* Program constants.                                                      *)

context_ttl == 3600
max_chain_length == 5

-----------------------------------------------------------------------------
(* Python values.                                                          *)

None == <<>>
Some(x) == <<x>>
EmptyDict == [k \in {} |-> TRUE]

\* dict.get(key, default)
Get(d, key, default) == IF key \in DOMAIN d THEN d[key] ELSE default

\* mutant of Update: a key held by both dicts keeps the nested keys of both
Update_DeepMerge(d, f) ==
    [k \in DOMAIN d \cup DOMAIN f |->
        IF k \in DOMAIN f
        THEN IF k \in DOMAIN d
             THEN [n \in DOMAIN d[k] \cup DOMAIN f[k] |->
                     IF n \in DOMAIN f[k] THEN f[k][n] ELSE d[k][n]]
             ELSE f[k]
        ELSE d[k]]

\* d.copy() followed by .update(f): top-level keys of f replace those of d
Update(d, f) ==
    [k \in DOMAIN d \cup DOMAIN f |-> IF k \in DOMAIN f THEN f[k] ELSE d[k]]

\* del d[key]
Del(d, key) == [k \in DOMAIN d \ {key} |-> d[k]]

\* d[key] = value
Put(d, key, value) == [k \in DOMAIN d \cup {key} |-> IF k = key THEN value ELSE d[k]]

\* truth value of a dict
TruthyDict(d) == DOMAIN d # {}

-----------------------------------------------------------------------------
(* Text: str.strip() and str.lower() on sequences of characters.           *)

Whitespace == {" ", "\t", "\n", "\r"}

UpperCase == <<"A","B","C","D","E","F","G","H","I","J","K","L","M",
               "N","O","P","Q","R","S","T","U","V","W","X","Y","Z">>
LowerCase == <<"a","b","c","d","e","f","g","h","i","j","k","l","m",
               "n","o","p","q","r","s","t","u","v","w","x","y","z">>

LowerChar(c) ==
    IF \E i \in DOMAIN UpperCase : UpperCase[i] = c
    THEN LowerCase[CHOOSE i \in DOMAIN UpperCase : UpperCase[i] = c]
    ELSE c

\* mutant of lower: letters are left in the case they came in
lower_KeepsCase(s) == s

lower(s) == [i \in DOMAIN s |-> LowerChar(s[i])]

RECURSIVE lstrip(_)
lstrip(s) == IF s # <<>> /\ Head(s) \in Whitespace THEN lstrip(Tail(s)) ELSE s

RECURSIVE rstrip(_)
rstrip(s) ==
    IF s # <<>> /\ s[Len(s)] \in Whitespace
    THEN rstrip(SubSeq(s, 1, Len(s) - 1))
    ELSE s

strip(s) == rstrip(lstrip(s))

-----------------------------------------------------------------------------
(* The registry self.agents and the graph's nodes.                         *)

agents == {"github", "proposal_validator", "lead_generation", "outreach"}

\* the spelling of each key of self.agents
Spelling ==
    [github |-> <<"g","i","t","h","u","b">>,
     proposal_validator |-> <<"p","r","o","p","o","s","a","l","_",
                              "v","a","l","i","d","a","t","o","r">>,
     lead_generation |-> <<"l","e","a","d","_",
                           "g","e","n","e","r","a","t","i","o","n">>,
     outreach |-> <<"o","u","t","r","e","a","c","h">>]

\* "agent_name not in self.agents": the key the text spells, if any
Lookup(text) ==
    IF \E a \in agents : Spelling[a] = text
    THEN Some(CHOOSE a \in agents : Spelling[a] = text)
    ELSE None

AgentNodes == {"github_agent", "proposal_validator", "lead_generation", "outreach"}

-----------------------------------------------------------------------------
(* ContextStore, in-memory backend (USE_REDIS is "false" by default).      *)
(* Each operation takes the two dictionaries and the time of the call and  *)
(* yields the dictionaries after it and the value it returns.              *)

StoreResult(ms, ts, ret) == [store |-> ms, stamps |-> ts, ret |-> ret]

\* mutant of _clean_expired_sessions: every record written before the
\* sweep is removed
_clean_expired_sessions_Eager(ms, ts, t) ==
    LET expired_sessions == {s \in DOMAIN ts : t - ts[s] > 0}
    IN  StoreResult([s \in DOMAIN ms \ expired_sessions |-> ms[s]],
                    [s \in DOMAIN ts \ expired_sessions |-> ts[s]],
                    TRUE)

\* mutant of _clean_expired_sessions: a record whose age equals the TTL is
\* removed as well
_clean_expired_sessions_AtTtl(ms, ts, t) ==
    LET expired_sessions == {s \in DOMAIN ts : t - ts[s] >= context_ttl}
    IN  StoreResult([s \in DOMAIN ms \ expired_sessions |-> ms[s]],
                    [s \in DOMAIN ts \ expired_sessions |-> ts[s]],
                    TRUE)

_clean_expired_sessions(ms, ts, t) ==
    LET expired_sessions == {s \in DOMAIN ts : t - ts[s] > context_ttl}
    IN  StoreResult([s \in DOMAIN ms \ expired_sessions |-> ms[s]],
                    [s \in DOMAIN ts \ expired_sessions |-> ts[s]],
                    TRUE)

\* mutant of store_context: a session that has a record keeps it
store_context_KeepsFirst(ms, ts, sid, context, t) ==
    IF sid \in DOMAIN ms
    THEN StoreResult(ms, ts, TRUE)
    ELSE StoreResult(Put(ms, sid, context), Put(ts, sid, t), TRUE)

\* mutant of store_context: the new mapping is merged into the stored one
store_context_Merges(ms, ts, sid, context, t) ==
    LET old == IF sid \in DOMAIN ms THEN ms[sid] ELSE EmptyDict
    IN  StoreResult(Put(ms, sid, Update(old, context)), Put(ts, sid, t), TRUE)

store_context(ms, ts, sid, context, t) ==
    LET ms1 == Put(ms, sid, context)
        ts1 == Put(ts, sid, t)
    IN  IF Cardinality(DOMAIN ms1) % 10 = 0
        THEN _clean_expired_sessions(ms1, ts1, t)
        ELSE StoreResult(ms1, ts1, TRUE)

\* mutant of get_context: a read does not refresh the timestamp
get_context_NoRefresh(ms, ts, sid, t) ==
    IF sid \in DOMAIN ms
    THEN IF sid \notin DOMAIN ts
         THEN StoreResult(ms, ts, None)
         ELSE IF t - ts[sid] <= context_ttl
              THEN StoreResult(ms, ts, Some(ms[sid]))
              ELSE StoreResult(Del(ms, sid), Del(ts, sid), None)
    ELSE StoreResult(ms, ts, None)

\* mutant of get_context: a record past its TTL is still returned
get_context_IgnoresTtl(ms, ts, sid, t) ==
    IF sid \in DOMAIN ms /\ sid \in DOMAIN ts
    THEN StoreResult(ms, Put(ts, sid, t), Some(ms[sid]))
    ELSE StoreResult(ms, ts, None)

get_context(ms, ts, sid, t) ==
    IF sid \in DOMAIN ms
    THEN IF sid \notin DOMAIN ts
         THEN StoreResult(ms, ts, None)          \* KeyError, caught
         ELSE IF t - ts[sid] <= context_ttl
              THEN StoreResult(ms, Put(ts, sid, t), Some(ms[sid]))
              ELSE StoreResult(Del(ms, sid), Del(ts, sid), None)
    ELSE StoreResult(ms, ts, None)

\* mutant of delete_context: the record is looked up under another key and
\* nothing is removed
delete_context_MissesKey(ms, ts, sid) == StoreResult(ms, ts, TRUE)

\* mutant of delete_context: the mapping is removed, its timestamp is kept
delete_context_KeepsTimestamp(ms, ts, sid) ==
    StoreResult(IF sid \in DOMAIN ms THEN Del(ms, sid) ELSE ms, ts, TRUE)

delete_context(ms, ts, sid) ==
    LET ms1 == IF sid \in DOMAIN ms THEN Del(ms, sid) ELSE ms
        ts1 == IF sid \in DOMAIN ts THEN Del(ts, sid) ELSE ts
    IN  StoreResult(ms1, ts1, TRUE)

\* "existing_context = self.get_context(session_id) or {}", then
\* existing_context.update(update_data), then store_context
update_context(ms, ts, sid, update_data, t) ==
    LET got == get_context(ms, ts, sid, t)
        existing_context ==
            IF got.ret # None /\ TruthyDict(got.ret[1]) THEN got.ret[1]
            ELSE EmptyDict
    IN  store_context(got.store, got.stamps, sid,
                      Update(existing_context, update_data), t)

-----------------------------------------------------------------------------
(* ContextStore, Redis backend (USE_REDIS is "true").                      *)
(* Values of a context that are no dict are written with a py tag; a dict  *)
(* never has the key py.  A JSON text is written as the document it        *)
(* denotes; an array in it carries a json tag.                             *)

PyTuple(items) == [py |-> "tuple", items |-> items]
PyList(items) == [py |-> "list", items |-> items]
PySet(items) == [py |-> "set", items |-> items]
JsonArray(items) == [json |-> "array", items |-> items]

\* json.dumps(context): a dict with string keys becomes an object, a list
\* or a tuple becomes an array, a set makes it raise TypeError (None here)
json_dumps(context) ==
    IF \E k \in DOMAIN context :
           "py" \in DOMAIN context[k] /\ context[k].py = "set"
    THEN None
    ELSE Some([k \in DOMAIN context |->
                 IF "py" \in DOMAIN context[k]
                 THEN JsonArray(context[k].items)
                 ELSE context[k]])

\* json.loads(data): an object becomes a dict, an array becomes a list
json_loads(data) ==
    [k \in DOMAIN data |->
        IF "json" \in DOMAIN data[k] THEN PyList(data[k].items) ELSE data[k]]

\* The Redis server: a key is gone once the time is past its expiry time.
redis_key(sid) == <<"context:", sid>>

RedisAt(rd, t) == [k \in {k \in DOMAIN rd : t <= rd[k].expire_at} |-> rd[k]]

redis_setex(rd, key, seconds, value, t) ==
    Put(RedisAt(rd, t), key, [value |-> value, expire_at |-> t + seconds])

redis_get(rd, key, t) ==
    IF key \in DOMAIN RedisAt(rd, t) THEN Some(rd[key].value) ELSE None

redis_expire(rd, key, seconds, t) ==
    IF key \in DOMAIN RedisAt(rd, t)
    THEN [RedisAt(rd, t) EXCEPT ![key].expire_at = t + seconds]
    ELSE RedisAt(rd, t)

redis_delete(rd, key, t) ==
    IF key \in DOMAIN RedisAt(rd, t) THEN Del(RedisAt(rd, t), key)
    ELSE RedisAt(rd, t)

\* What the body of a method does: it returns a value or raises.  fault
\* names the Redis command that fails with a connection error without
\* being carried out ("none": the server answers every command).
Faults == {"none", "setex", "get", "expire", "delete"}
Return(rd, ret) == [data |-> rd, ret |-> ret, raises |-> FALSE]
Raise(rd) == [data |-> rd, ret |-> None, raises |-> TRUE]

\* mutant of except_Exception: the exception leaves the method
except_Exception_Propagates(outcome, fallback) == outcome

\* "except Exception as e: print(...); return <fallback>"
except_Exception(outcome, fallback) ==
    IF outcome.raises THEN Return(outcome.data, fallback) ELSE outcome

\* mutant of store_context_use_redis: a context that cannot be written
\* removes the stored one
store_context_use_redis_DropsOld(rd, sid, context, t, fault) ==
    LET text == json_dumps(context)
    IN  IF text = None \/ fault = "setex"
        THEN Return(redis_delete(rd, redis_key(sid), t), FALSE)
        ELSE Return(redis_setex(rd, redis_key(sid), context_ttl, text[1], t),
                    TRUE)

\* the try block of store_context: json.dumps, then setex
store_context_try(rd, sid, context, t, fault) ==
    LET text == json_dumps(context)
    IN  IF text = None THEN Raise(rd)
        ELSE IF fault = "setex" THEN Raise(rd)
        ELSE Return(redis_setex(rd, redis_key(sid), context_ttl, text[1], t),
                    TRUE)

store_context_use_redis(rd, sid, context, t, fault) ==
    except_Exception(store_context_try(rd, sid, context, t, fault), FALSE)

\* the try block of get_context: get, and for a value that was found
\* expire, then json.loads
get_context_try(rd, sid, t, fault) ==
    IF fault = "get" THEN Raise(rd)
    ELSE LET data == redis_get(rd, redis_key(sid), t)
         IN  IF data # None
             THEN IF fault = "expire" THEN Raise(rd)
                  ELSE Return(redis_expire(rd, redis_key(sid), context_ttl, t),
                              Some(json_loads(data[1])))
             ELSE Return(RedisAt(rd, t), None)

get_context_use_redis(rd, sid, t, fault) ==
    except_Exception(get_context_try(rd, sid, t, fault), None)

\* the try block of delete_context
delete_context_try(rd, sid, t, fault) ==
    IF fault = "delete" THEN Raise(rd)
    ELSE Return(redis_delete(rd, redis_key(sid), t), TRUE)

delete_context_use_redis(rd, sid, t, fault) ==
    except_Exception(delete_context_try(rd, sid, t, fault), FALSE)

\* the try block of update_context: get_context, "or {}", update, then
\* store_context, whose result is returned
update_context_try(rd, sid, update_data, t, fault) ==
    LET got == get_context_use_redis(rd, sid, t, fault)
        existing_context ==
            IF got.ret # None /\ TruthyDict(got.ret[1]) THEN got.ret[1]
            ELSE EmptyDict
    IN  store_context_use_redis(got.data, sid,
                                Update(existing_context, update_data), t, fault)

update_context_use_redis(rd, sid, update_data, t, fault) ==
    except_Exception(update_context_try(rd, sid, update_data, t, fault), FALSE)

\* a Redis command or a conversion raised somewhere inside the call
StoreErred(rd, sid, context, t, fault) ==
    store_context_try(rd, sid, context, t, fault).raises
GetErred(rd, sid, t, fault) == get_context_try(rd, sid, t, fault).raises
DeleteErred(rd, sid, t, fault) == delete_context_try(rd, sid, t, fault).raises
UpdateErred(rd, sid, update_data, t, fault) ==
    LET got == get_context_use_redis(rd, sid, t, fault)
        existing_context ==
            IF got.ret # None /\ TruthyDict(got.ret[1]) THEN got.ret[1]
            ELSE EmptyDict
    IN  \/ GetErred(rd, sid, t, fault)
        \/ StoreErred(got.data, sid, Update(existing_context, update_data),
                      t, fault)

-----------------------------------------------------------------------------
(* AgentState and the nodes of the workflow.                               *)

AgentState(user_input, context, history, current_agent, output, error) ==
    [user_input |-> user_input, context |-> context, history |-> history,
     current_agent |-> current_agent, output |-> output, error |-> error]

\* The classifier call either raises (raises, msg) or answers with text.
_parse_intent(st, answer) ==
    IF answer.raises
    THEN [st EXCEPT !.error = Some(<<"Error parsing intent: ", answer.msg>>)]
    ELSE LET agent_name == Lookup(lower(strip(answer.text)))
         IN  [st EXCEPT !.current_agent = agent_name]

_should_route_to_github(st) == st.current_agent = Some("github")
_should_route_to_validator(st) == st.current_agent = Some("proposal_validator")
_should_route_to_lead_gen(st) == st.current_agent = Some("lead_generation")
_should_route_to_outreach(st) == st.current_agent = Some("outreach")

\* mutant of RunAgent: the history is replaced by the new entry
RunAgent_RewritesHistory(name, prefix, st, outcome) ==
    IF outcome.raises
    THEN [st EXCEPT !.error = Some(<<prefix, outcome.msg>>)]
    ELSE AgentState(st.user_input,
                    Update(st.context, Get(outcome.result, "context", EmptyDict)),
                    <<[agent |-> name, input |-> st.user_input,
                       output |-> Get(outcome.result, "response", "")]>>,
                    Some(name), Some(outcome.result), None)

\* mutant of RunAgent: a handler that raises costs the turn its context
RunAgent_RaiseClearsContext(name, prefix, st, outcome) ==
    IF outcome.raises
    THEN [st EXCEPT !.error = Some(<<prefix, outcome.msg>>),
                    !.context = EmptyDict]
    ELSE AgentState(st.user_input,
                    Update(st.context, Get(outcome.result, "context", EmptyDict)),
                    Append(st.history,
                           [agent |-> name, input |-> st.user_input,
                            output |-> Get(outcome.result, "response", "")]),
                    Some(name), Some(outcome.result), None)

\* mutant of RunAgent: the error of an earlier step outlives a handler
\* that returned
RunAgent_KeepsError(name, prefix, st, outcome) ==
    IF outcome.raises
    THEN [st EXCEPT !.error = Some(<<prefix, outcome.msg>>)]
    ELSE AgentState(st.user_input,
                    Update(st.context, Get(outcome.result, "context", EmptyDict)),
                    Append(st.history,
                           [agent |-> name, input |-> st.user_input,
                            output |-> Get(outcome.result, "response", "")]),
                    Some(name), Some(outcome.result), st.error)

\* The body shared by the four agent runners.  The handler call either
\* raises (raises, msg) or returns the dict agent_result.
RunAgent(name, prefix, st, outcome) ==
    IF outcome.raises
    THEN [st EXCEPT !.error = Some(<<prefix, outcome.msg>>)]
    ELSE LET agent_result == outcome.result
             updated_context ==
                 Update(st.context, Get(agent_result, "context", EmptyDict))
             history ==
                 Append(st.history,
                        [agent |-> name, input |-> st.user_input,
                         output |-> Get(agent_result, "response", "")])
         IN  AgentState(st.user_input, updated_context, history,
                        Some(name), Some(agent_result), None)

_run_github_agent(st, outcome) ==
    RunAgent("github", "GitHub agent error: ", st, outcome)
_run_proposal_validator(st, outcome) ==
    RunAgent("proposal_validator", "Proposal validator error: ", st, outcome)
_run_lead_generation(st, outcome) ==
    RunAgent("lead_generation", "Lead generation error: ", st, outcome)
_run_outreach(st, outcome) ==
    RunAgent("outreach", "Outreach agent error: ", st, outcome)

\* mutant of HandlerArgs: every handler is given the empty context
HandlerArgs_EmptyContext(st) == [query |-> st.user_input, context |-> EmptyDict]

\* "self.agents[...].run(query=state.user_input, context=state.context)":
\* what a runner passes to its handler
HandlerArgs(st) == [query |-> st.user_input, context |-> st.context]

\* the user request that _parse_intent puts into the classifier's prompt
ClassifierArgs(st) == st.user_input

\* mutant of _check_completion: a result without complete counts as complete
_check_completion_DefaultsComplete(st) ==
    IF st.error # None
    THEN TRUE
    ELSE st.output # None /\ TruthyDict(st.output[1])
            /\ Get(st.output[1], "complete", TRUE)

\* mutant of _check_completion: only an error ends the turn
_check_completion_OnlyOnError(st) == st.error # None

\* mutant of _check_completion: the error of the turn is not looked at
_check_completion_IgnoresError(st) ==
    st.output # None /\ TruthyDict(st.output[1])
        /\ Get(st.output[1], "complete", FALSE)

_check_completion(st) ==
    IF st.error # None
    THEN TRUE
    ELSE IF st.output # None /\ TruthyDict(st.output[1])
            /\ Get(st.output[1], "complete", FALSE)
         THEN TRUE
         ELSE FALSE

\* The edges leaving parse_intent: the node whose condition holds, or the
\* end of the run when none does.
AfterParseIntent(st) ==
    IF _should_route_to_github(st) THEN "github_agent"
    ELSE IF _should_route_to_validator(st) THEN "proposal_validator"
    ELSE IF _should_route_to_lead_gen(st) THEN "lead_generation"
    ELSE IF _should_route_to_outreach(st) THEN "outreach"
    ELSE "END"

\* The conditional edges leaving an agent node.
AfterAgent(st) == IF _check_completion(st) THEN "END" ELSE "parse_intent"

\* The function registered for each agent node.
NodeFunction(node, st, outcome) ==
    CASE node = "github_agent" -> _run_github_agent(st, outcome)
      [] node = "proposal_validator" -> _run_proposal_validator(st, outcome)
      [] node = "lead_generation" -> _run_lead_generation(st, outcome)
      [] node = "outreach" -> _run_outreach(st, outcome)

-----------------------------------------------------------------------------
(* run_workflow: before and after workflow.invoke.                         *)

\* str(uuid.uuid4()) of the k-th call: a fresh identifier
Uuids == <<"uuid-1", "uuid-2", "uuid-3", "uuid-4">>
uuid4(k) == Uuids[k]

\* "if not session_id: session_id = str(uuid.uuid4())"
ResolveSessionId(arg, k) ==
    IF arg = None \/ arg = Some("") THEN uuid4(k) ELSE arg[1]

\* the get_context calls made before the workflow runs
GetCalls(sid) == <<sid>>

\* "context = self.context_store.get_context(session_id) or {}"
OrEmpty(got) == IF got # None /\ TruthyDict(got[1]) THEN got[1] ELSE EmptyDict

\* mutant of initial_state: the stored context is not handed to the turn
initial_state_DropsContext(user_input, got) ==
    AgentState(user_input, EmptyDict, <<>>, None, None, None)

initial_state(user_input, got) ==
    AgentState(user_input, OrEmpty(got), <<>>, None, None, None)

\* mutant of StoreCalls: a turn that ends without context stores the empty
\* mapping, a turn that ends with one stores nothing
StoreCalls_OnlyEmpty(final_state, sid) ==
    IF TruthyDict(final_state.context)
    THEN <<>>
    ELSE <<[session_id |-> sid, context |-> final_state.context]>>

\* mutant of StoreCalls: nothing is stored
StoreCalls_SkipsSave(final_state, sid) == <<>>

\* mutant of StoreCalls: the context is stored only when the turn succeeded
StoreCalls_OnlyOnSuccess(final_state, sid) ==
    IF TruthyDict(final_state.context) /\ final_state.error = None
    THEN <<[session_id |-> sid, context |-> final_state.context]>>
    ELSE <<>>

\* mutant of StoreCalls: the context is stored once per handler that ran
StoreCalls_PerHandler(final_state, sid) ==
    IF TruthyDict(final_state.context)
    THEN [i \in 1..Len(final_state.history) |->
            [session_id |-> sid, context |-> final_state.context]]
    ELSE <<>>

\* mutant of StoreCalls: the final context is stored even when it is empty
StoreCalls_Unconditional(final_state, sid) ==
    <<[session_id |-> sid, context |-> final_state.context]>>

\* "if final_state.context: self.context_store.store_context(...)":
\* the store calls made after the workflow returned
StoreCalls(final_state, sid) ==
    IF TruthyDict(final_state.context)
    THEN <<[session_id |-> sid, context |-> final_state.context]>>
    ELSE <<>>

\* the dict returned on the normal path
Envelope(final_state, sid) ==
    [session_id |-> sid,
     output |-> IF final_state.output # None /\ TruthyDict(final_state.output[1])
                THEN Some(Get(final_state.output[1], "response", ""))
                ELSE None,
     error |-> final_state.error,
     agent_used |-> final_state.current_agent]

-----------------------------------------------------------------------------
(* The environment: callers, the classifier, the handlers.                 *)

UserInputs == {"list open issues for owner/repo", "email the new leads"}

SessionArgs == {None, Some("s1")}

Answer(text) == [raises |-> FALSE, text |-> text, msg |-> ""]
Failure(msg) == [raises |-> TRUE, text |-> <<>>, msg |-> msg]

\* What the classification call does: an answer in any spelling, an
\* unknown or empty answer, or an exception.
ClassifierOutcomes ==
    { Answer(Spelling["github"]),
      Answer(<<" ","G","i","t","H","u","b","\n">>),
      Answer(Spelling["proposal_validator"]),
      Answer(Spelling["lead_generation"]),
      Answer(<<"O","U","T","R","E","A","C","H">>),
      Answer(<<"w","e","a","t","h","e","r">>),
      Answer(<<>>),
      Failure("timeout") }

Returns(agent_result) == [raises |-> FALSE, result |-> agent_result, msg |-> ""]
Raises(msg) == [raises |-> TRUE, result |-> EmptyDict, msg |-> msg]

Issues == [issues |-> "3 open"]
Repo == [repo |-> "owner/repo"]

\* What a handler's run() does: the dict it returns, or an exception.
AgentOutcomes ==
    { Returns([response |-> "3 open issues", context |-> [github |-> Issues],
               complete |-> TRUE]),
      Returns([response |-> "drafted", context |-> [github |-> Repo],
               complete |-> FALSE]),
      Returns([context |-> [outreach |-> Issues]]),
      Returns(EmptyDict),
      Raises("boom") }

\* Two handlers that never complete and are routed to each other; a result
\* may report a failure of the handler in an error field.
ChainClassifierOutcomes ==
    { Answer(Spelling["github"]), Answer(Spelling["outreach"]),
      Answer(<<"w","e","a","t","h","e","r">>) }
ChainAgentOutcomes ==
    { Returns([response |-> "again", context |-> [github |-> Repo],
               complete |-> FALSE]),
      Returns([response |-> "failed", error |-> "rate limited",
               complete |-> FALSE]) }

-----------------------------------------------------------------------------
(* Initial state: a constructed orchestrator, an empty store, no call.     *)

NoTrace ==
    [arg |-> None, before |-> None, classified |-> 0, answer |-> None,
     asked |-> <<>>, outcomes |-> <<>>, gets |-> <<>>, puts |-> <<>>,
     erred |-> <<>>]

\* What the store holds for a session at time t: the mapping of a record
\* that is present and within its TTL, None otherwise.
Visible(ms, ts, sid, t) ==
    IF sid \in DOMAIN ms /\ sid \in DOMAIN ts /\ t - ts[sid] <= context_ttl
    THEN Some(ms[sid])
    ELSE None

\* The store's interface as its callers see it.  op is the last call: the
\* method, its arguments and what it returned.  written holds, for each
\* session ever written, the mapping last written, the time of that write
\* (since), the time of the last write or successful read (touched), and
\* whether the session has since been deleted or been found expired by a
\* read (gone; the mapping is then dropped).
NoApi == [op |-> None, written |-> EmptyDict]

Called(name, sid, arg, ret) == [name |-> name, sid |-> sid, arg |-> arg, ret |-> ret]

\* a bool returned where another call returns a dict or None
Bool(b) == [bool |-> b]

Written(mapping, t) ==
    [mapping |-> Some(mapping), since |-> t, touched |-> t, gone |-> ""]

Gone(record, how) == [record EXCEPT !.mapping = None, !.gone = how]

Deleted(w, sid) == sid \in DOMAIN w /\ w[sid].gone = "deleted"

Live(w, sid, t) ==
    /\ sid \in DOMAIN w
    /\ w[sid].gone = ""
    /\ t - w[sid].touched <= context_ttl

Untouched(w, sid, t) ==
    /\ sid \in DOMAIN w
    /\ w[sid].gone # "deleted"
    /\ t - w[sid].touched > context_ttl

AbstractGet(w, sid, t) ==
    IF Live(w, sid, t) THEN [w EXCEPT ![sid].touched = t]
    ELSE IF Untouched(w, sid, t) THEN [w EXCEPT ![sid] = Gone(@, "expired")]
    ELSE w

AbstractPut(w, sid, mapping, t) == Put(w, sid, Written(mapping, t))

AbstractDelete(w, sid) ==
    IF sid \in DOMAIN w THEN [w EXCEPT ![sid] = Gone(@, "deleted")] ELSE w

RECURSIVE AbstractGets(_, _, _)
AbstractGets(w, getCalls, t) ==
    IF getCalls = <<>> THEN w
    ELSE AbstractGets(AbstractGet(w, Head(getCalls), t), Tail(getCalls), t)

RECURSIVE AbstractPuts(_, _, _)
AbstractPuts(w, storeCalls, t) ==
    IF storeCalls = <<>> THEN w
    ELSE AbstractPuts(AbstractPut(w, Head(storeCalls).session_id,
                                  Head(storeCalls).context, t),
                      Tail(storeCalls), t)

\* a caller that has made no call yet
NoOther ==
    [pc |-> "idle", session_id |-> "",
     state |-> AgentState("", EmptyDict, <<>>, None, None, None),
     result |-> None, trace |-> NoTrace]

\* a Redis server without keys, no call made yet
NoRedis == [data |-> EmptyDict, op |-> None]

Init ==
    /\ memory_store = EmptyDict
    /\ memory_timestamps = EmptyDict
    /\ now = 0
    /\ ticks = 0
    /\ pc = "idle"
    /\ session_id = ""
    /\ state = AgentState("", EmptyDict, <<>>, None, None, None)
    /\ result = None
    /\ calls = 0
    /\ dispatched = 0
    /\ api = NoApi
    /\ other = NoOther
    /\ redis = NoRedis
    /\ trace = NoTrace

\* time passes between calls: half a TTL, or more than a TTL
Tick ==
    /\ pc = "idle"
    /\ ticks < MaxTicks
    /\ \E d \in {context_ttl \div 2, context_ttl + 1} : now' = now + d
    /\ ticks' = ticks + 1
    /\ UNCHANGED <<other, redis, memory_store, memory_timestamps, pc, session_id, state,
                   result, calls, dispatched, api, trace>>

RECURSIVE ApplyGetCalls(_, _, _, _)
ApplyGetCalls(ms, ts, getCalls, t) ==
    LET r == get_context(ms, ts, Head(getCalls), t)
    IN  IF Len(getCalls) = 1
        THEN r
        ELSE ApplyGetCalls(r.store, r.stamps, Tail(getCalls), t)

\* run_workflow up to workflow.invoke: the session id, the one get_context,
\* the initial AgentState
StartWorkflow(inputs, args, maxCalls) ==
    /\ pc = "idle"
    /\ calls < maxCalls
    /\ \E user_input \in inputs, arg \in args :
        LET sid == ResolveSessionId(arg, calls + 1)
            got == ApplyGetCalls(memory_store, memory_timestamps,
                                 GetCalls(sid), now)
        IN  /\ session_id' = sid
            /\ memory_store' = got.store
            /\ memory_timestamps' = got.stamps
            /\ state' = initial_state(user_input, got.ret)
            /\ trace' = [NoTrace EXCEPT
                            !.arg = arg, !.gets = GetCalls(sid),
                            !.before = Visible(memory_store, memory_timestamps,
                                               sid, now)]
            /\ api' = [op |-> Some(Called("get_context", sid, EmptyDict, got.ret)),
                       written |-> AbstractGets(api.written, GetCalls(sid), now)]
    /\ calls' = calls + 1
    /\ result' = None
    /\ pc' = "parse_intent"
    /\ UNCHANGED <<other, redis, now, ticks, dispatched>>

\* node parse_intent and the edges leaving it
ParseIntent(outcomes) ==
    /\ pc = "parse_intent"
    /\ \E answer \in outcomes :
        /\ state' = _parse_intent(state, answer)
        /\ pc' = AfterParseIntent(state')
        /\ trace' = [trace EXCEPT !.classified = @ + 1,
                                  !.answer = Some(answer),
                                  !.asked = Append(@, ClassifierArgs(state))]
    /\ UNCHANGED <<other, redis, memory_store, memory_timestamps, now, ticks, session_id,
                   result, calls, dispatched, api>>

\* an agent node and the conditional edges leaving it
Dispatch(outcomes, maxDispatch) ==
    /\ pc \in AgentNodes
    /\ dispatched < maxDispatch
    /\ \E outcome \in outcomes :
        /\ state' = NodeFunction(pc, state, outcome)
        /\ pc' = AfterAgent(state')
        /\ trace' = [trace EXCEPT
                        !.outcomes = Append(@, [node |-> pc, outcome |-> outcome,
                                                args |-> HandlerArgs(state),
                                                history |-> state.history])]
    /\ dispatched' = dispatched + 1
    /\ UNCHANGED <<other, redis, memory_store, memory_timestamps, now, ticks, session_id,
                   result, calls, api>>

RECURSIVE ApplyStoreCalls(_, _, _, _)
ApplyStoreCalls(ms, ts, storeCalls, t) ==
    IF storeCalls = <<>>
    THEN StoreResult(ms, ts, None)
    ELSE LET c == Head(storeCalls)
             r == store_context(ms, ts, c.session_id, c.context, t)
         IN  ApplyStoreCalls(r.store, r.stamps, Tail(storeCalls), t)

\* run_workflow after workflow.invoke returned: store the context, return
FinishWorkflow ==
    /\ pc = "END"
    /\ LET storeCalls == StoreCalls(state, session_id)
           saved == ApplyStoreCalls(memory_store, memory_timestamps, storeCalls, now)
       IN  /\ memory_store' = saved.store
           /\ memory_timestamps' = saved.stamps
           /\ trace' = [trace EXCEPT !.puts = @ \o storeCalls]
           /\ api' = IF storeCalls = <<>> THEN api
                     ELSE LET c == storeCalls[Len(storeCalls)]
                          IN  [op |-> Some(Called("store_context", c.session_id,
                                                  c.context, Some(Bool(TRUE)))),
                               written |-> AbstractPuts(api.written, storeCalls,
                                                        now)]
    /\ result' = Some(Envelope(state, session_id))
    /\ pc' = "idle"
    /\ UNCHANGED <<other, redis, now, ticks, session_id, state, calls, dispatched>>

Next ==
    \/ Tick
    \/ StartWorkflow({"list open issues for owner/repo"}, SessionArgs, MaxCalls)
    \/ ParseIntent(ClassifierOutcomes)
    \/ Dispatch(AgentOutcomes, MaxDispatch)
    \/ FinishWorkflow

Spec == Init /\ [][Next]_vars

\* One call in which the classifier keeps choosing between two handlers
\* that never complete.
NextChain ==
    \/ StartWorkflow(UserInputs, {Some("s1")}, 1)
    \/ ParseIntent(ChainClassifierOutcomes)
    \/ Dispatch(ChainAgentOutcomes, MaxChainDispatch)
    \/ FinishWorkflow

SpecChain == Init /\ [][NextChain]_vars

\* Two callers of run_workflow at once.  One of them is running and the
\* other is suspended with its locals in other; Switch suspends the running
\* one and resumes the other; between calls there is nothing to suspend, so
\* one of the two is inside a call.  The orchestrator and its store are
\* shared.
Locals ==
    [pc |-> pc, session_id |-> session_id, state |-> state, result |-> result,
     trace |-> trace]

Switch ==
    /\ pc # "idle" \/ other.pc # "idle"
    /\ other' = Locals
    /\ pc' = other.pc
    /\ session_id' = other.session_id
    /\ state' = other.state
    /\ result' = other.result
    /\ trace' = other.trace
    /\ UNCHANGED <<memory_store, memory_timestamps, now, ticks, calls,
                   dispatched, api, redis>>

\* Two calls on one session, each routed to a handler that completes with
\* its own context fragment.
OverlapClassifierOutcomes ==
    { Answer(Spelling["github"]), Answer(Spelling["outreach"]) }
OverlapAgentOutcomes ==
    { Returns([response |-> "3 open issues", context |-> [github |-> Issues],
               complete |-> TRUE]),
      Returns([response |-> "sent", context |-> [outreach |-> Issues],
               complete |-> TRUE]) }

NextOverlap ==
    \/ StartWorkflow({"list open issues for owner/repo"}, {Some("s1")}, MaxCalls)
    \/ ParseIntent(OverlapClassifierOutcomes)
    \/ Dispatch(OverlapAgentOutcomes, MaxDispatch)
    \/ FinishWorkflow
    \/ Switch

SpecOverlap == Init /\ [][NextOverlap]_vars

-----------------------------------------------------------------------------
(* The store used directly, next to run_workflow: callers of ContextStore  *)
(* store, read, update and delete the contexts of two sessions while time  *)
(* passes.  The store starts holding eight further sessions written at     *)
(* time 0 and never used again, so that two more sessions bring its size   *)
(* to the ten at which store_context sweeps.                               *)

StoreSessions == {"s1", "s2"}
IdleSessions == {"f1", "f2", "f3", "f4", "f5", "f6", "f7", "f8"}
Mappings == {EmptyDict, [github |-> Issues], [outreach |-> Issues]}
Updates == {[github |-> Repo]}

InitStore ==
    /\ memory_store = [s \in IdleSessions |-> [github |-> Issues]]
    /\ memory_timestamps = [s \in IdleSessions |-> 0]
    /\ now = 0
    /\ ticks = 0
    /\ pc = "idle"
    /\ session_id = ""
    /\ state = AgentState("", EmptyDict, <<>>, None, None, None)
    /\ result = None
    /\ calls = 0
    /\ dispatched = 0
    /\ api = [op |-> None,
              written |-> [s \in IdleSessions |->
                              Written([github |-> Issues], 0)]]
    /\ other = NoOther
    /\ redis = NoRedis
    /\ trace = NoTrace

\* time passes between calls on the store: nine tenths of a TTL, exactly a
\* TTL, or more than a TTL
Elapse ==
    /\ pc = "idle"
    /\ ticks < MaxStoreTicks
    /\ \E d \in {(9 * context_ttl) \div 10, context_ttl, context_ttl + 1} :
          now' = now + d
    /\ ticks' = ticks + 1
    /\ UNCHANGED <<other, redis, memory_store, memory_timestamps, pc, session_id, state,
                   result, calls, dispatched, api, trace>>

StoreContext(sessions, mappings) ==
    /\ pc = "idle"
    /\ \E sid \in sessions, context \in mappings :
        LET r == store_context(memory_store, memory_timestamps, sid, context, now)
        IN  /\ memory_store' = r.store
            /\ memory_timestamps' = r.stamps
            /\ api' = [op |-> Some(Called("store_context", sid, context,
                                          Some(Bool(r.ret)))),
                       written |-> AbstractPut(api.written, sid, context, now)]
    /\ UNCHANGED <<other, redis, now, ticks, pc, session_id, state, result, calls,
                   dispatched, trace>>

GetContext(sessions) ==
    /\ pc = "idle"
    /\ \E sid \in sessions :
        LET r == get_context(memory_store, memory_timestamps, sid, now)
        IN  /\ memory_store' = r.store
            /\ memory_timestamps' = r.stamps
            /\ api' = [op |-> Some(Called("get_context", sid, EmptyDict, r.ret)),
                       written |-> AbstractGet(api.written, sid, now)]
    /\ UNCHANGED <<other, redis, now, ticks, pc, session_id, state, result, calls,
                   dispatched, trace>>

UpdateContext(sessions, updates) ==
    /\ pc = "idle"
    /\ \E sid \in sessions, update_data \in updates :
        LET r == update_context(memory_store, memory_timestamps, sid,
                                update_data, now)
            w == AbstractGet(api.written, sid, now)
            existing == IF Live(w, sid, now) THEN w[sid].mapping[1] ELSE EmptyDict
        IN  /\ memory_store' = r.store
            /\ memory_timestamps' = r.stamps
            /\ api' = [op |-> Some(Called("update_context", sid, update_data,
                                          Some(Bool(r.ret)))),
                       written |-> AbstractPut(w, sid,
                                               Update(existing, update_data), now)]
    /\ UNCHANGED <<other, redis, now, ticks, pc, session_id, state, result, calls,
                   dispatched, trace>>

DeleteContext(sessions) ==
    /\ pc = "idle"
    /\ \E sid \in sessions :
        LET r == delete_context(memory_store, memory_timestamps, sid)
        IN  /\ memory_store' = r.store
            /\ memory_timestamps' = r.stamps
            /\ api' = [op |-> Some(Called("delete_context", sid, EmptyDict,
                                          Some(Bool(r.ret)))),
                       written |-> AbstractDelete(api.written, sid)]
    /\ UNCHANGED <<other, redis, now, ticks, pc, session_id, state, result, calls,
                   dispatched, trace>>

NextStore ==
    \/ Elapse
    \/ StoreContext(StoreSessions, Mappings)
    \/ GetContext(StoreSessions)
    \/ UpdateContext(StoreSessions, Updates)
    \/ DeleteContext(StoreSessions)

SpecStore == InitStore /\ [][NextStore]_vars

\* Writes only: callers keep storing contexts for the two sessions while
\* time passes, and the eight other sessions are never used again.  The
\* sweep runs inside store_context and nowhere else, so it can only run if
\* writes keep coming: that they do is the fairness assumed here.
NextSweep ==
    \/ Elapse
    \/ StoreContext(StoreSessions, Mappings)

SpecSweep ==
    /\ InitStore
    /\ [][NextSweep]_vars
    /\ WF_vars(StoreContext(StoreSessions, Mappings))

\* Two threads call store_context and delete_context of one in-memory
\* ContextStore, which takes no lock: the running thread may be suspended
\* between any two statements of a method.  session_id is the argument of
\* the call under way, state.context the context passed to store_context,
\* pc the statement to run next, result what the call returned.
RaceSessions == {"s1"}
RaceMappings == {[github |-> Issues], [outreach |-> Issues]}

StoreFrame(context) == AgentState("", context, <<>>, None, None, None)

CallStoreContext(sessions, mappings, maxCalls) ==
    /\ pc = "idle"
    /\ calls < maxCalls
    /\ \E sid \in sessions, context \in mappings :
        /\ session_id' = sid
        /\ state' = StoreFrame(context)
    /\ pc' = "store_context:58"
    /\ result' = None
    /\ calls' = calls + 1
    /\ UNCHANGED <<memory_store, memory_timestamps, now, ticks, dispatched,
                   api, other, redis, trace>>

\* self.memory_store[session_id] = context
StoreAssignMapping ==
    /\ pc = "store_context:58"
    /\ memory_store' = Put(memory_store, session_id, state.context)
    /\ pc' = "store_context:59"
    /\ UNCHANGED <<memory_timestamps, now, ticks, session_id, state, result,
                   calls, dispatched, api, other, redis, trace>>

\* self.memory_timestamps[session_id] = time.time()
StoreAssignTimestamp ==
    /\ pc = "store_context:59"
    /\ memory_timestamps' = Put(memory_timestamps, session_id, now)
    /\ pc' = "store_context:62"
    /\ UNCHANGED <<memory_store, now, ticks, session_id, state, result,
                   calls, dispatched, api, other, redis, trace>>

\* the sweep at every tenth session, then "return True"
StoreSweepAndReturn ==
    /\ pc = "store_context:62"
    /\ LET r == IF Cardinality(DOMAIN memory_store) % 10 = 0
                THEN _clean_expired_sessions(memory_store, memory_timestamps, now)
                ELSE StoreResult(memory_store, memory_timestamps, TRUE)
       IN  /\ memory_store' = r.store
           /\ memory_timestamps' = r.stamps
    /\ result' = Some(Bool(TRUE))
    /\ pc' = "idle"
    /\ UNCHANGED <<now, ticks, session_id, state, calls, dispatched, api,
                   other, redis, trace>>

CallDeleteContext(sessions, maxCalls) ==
    /\ pc = "idle"
    /\ calls < maxCalls
    /\ \E sid \in sessions : session_id' = sid
    /\ state' = StoreFrame(EmptyDict)
    /\ pc' = "delete_context:143"
    /\ result' = None
    /\ calls' = calls + 1
    /\ UNCHANGED <<memory_store, memory_timestamps, now, ticks, dispatched,
                   api, other, redis, trace>>

\* if session_id in self.memory_store:
DeleteTestMapping ==
    /\ pc = "delete_context:143"
    /\ pc' = IF session_id \in DOMAIN memory_store THEN "delete_context:144"
             ELSE "delete_context:145"
    /\ UNCHANGED <<memory_store, memory_timestamps, now, ticks, session_id,
                   state, result, calls, dispatched, api, other, redis, trace>>

\* del self.memory_store[session_id]; a KeyError is caught at line 150 and
\* the method returns False
DeleteMapping ==
    /\ pc = "delete_context:144"
    /\ IF session_id \in DOMAIN memory_store
       THEN /\ memory_store' = Del(memory_store, session_id)
            /\ pc' = "delete_context:145"
            /\ UNCHANGED result
       ELSE /\ result' = Some(Bool(FALSE))
            /\ pc' = "idle"
            /\ UNCHANGED memory_store
    /\ UNCHANGED <<memory_timestamps, now, ticks, session_id, state, calls,
                   dispatched, api, other, redis, trace>>

\* if session_id in self.memory_timestamps: otherwise "return True"
DeleteTestTimestamp ==
    /\ pc = "delete_context:145"
    /\ IF session_id \in DOMAIN memory_timestamps
       THEN /\ pc' = "delete_context:146"
            /\ UNCHANGED result
       ELSE /\ result' = Some(Bool(TRUE))
            /\ pc' = "idle"
    /\ UNCHANGED <<memory_store, memory_timestamps, now, ticks, session_id,
                   state, calls, dispatched, api, other, redis, trace>>

\* del self.memory_timestamps[session_id], then "return True"; a KeyError
\* is caught and the method returns False
DeleteTimestamp ==
    /\ pc = "delete_context:146"
    /\ IF session_id \in DOMAIN memory_timestamps
       THEN /\ memory_timestamps' = Del(memory_timestamps, session_id)
            /\ result' = Some(Bool(TRUE))
       ELSE /\ result' = Some(Bool(FALSE))
            /\ UNCHANGED memory_timestamps
    /\ pc' = "idle"
    /\ UNCHANGED <<memory_store, now, ticks, session_id, state, calls,
                   dispatched, api, other, redis, trace>>

NextRace ==
    \/ CallStoreContext(RaceSessions, RaceMappings, MaxCalls + 1)
    \/ StoreAssignMapping
    \/ StoreAssignTimestamp
    \/ StoreSweepAndReturn
    \/ CallDeleteContext(RaceSessions, MaxCalls + 1)
    \/ DeleteTestMapping
    \/ DeleteMapping
    \/ DeleteTestTimestamp
    \/ DeleteTimestamp
    \/ Switch

SpecRace == Init /\ [][NextRace]_vars

\* run_workflow next to direct callers of the store: turns for session s1,
\* routed to the github handler or to none, while the context of s1 is also
\* stored and read directly and time passes.
ExpiryClassifierOutcomes ==
    { Answer(Spelling["github"]), Answer(<<"w","e","a","t","h","e","r">>) }
ExpiryAgentOutcomes ==
    { Returns([response |-> "3 open issues", context |-> [github |-> Issues],
               complete |-> TRUE]),
      Raises("boom") }

NextExpiry ==
    \/ Elapse
    \/ StoreContext({"s1"}, {[outreach |-> Issues]})
    \/ GetContext({"s1"})
    \/ StartWorkflow({"list open issues for owner/repo"}, {Some("s1")}, MaxCalls)
    \/ ParseIntent(ExpiryClassifierOutcomes)
    \/ Dispatch(ExpiryAgentOutcomes, MaxDispatch)
    \/ FinishWorkflow

SpecExpiry == Init /\ [][NextExpiry]_vars

\* Two sessions side by side: turns for session s1 by one caller, while
\* another caller stores, reads, updates and deletes the context of s2 and
\* time passes; the store also holds the idle sessions.
NextSessions ==
    \/ Tick
    \/ StoreContext({"s2"}, {[outreach |-> Issues]})
    \/ GetContext({"s2"})
    \/ UpdateContext({"s2"}, Updates)
    \/ DeleteContext({"s2"})
    \/ StartWorkflow({"list open issues for owner/repo"}, {Some("s1")}, MaxCalls)
    \/ ParseIntent(ExpiryClassifierOutcomes)
    \/ Dispatch(ExpiryAgentOutcomes, MaxDispatch)
    \/ FinishWorkflow
    \/ Switch

SpecSessions == InitStore /\ [][NextSessions]_vars

-----------------------------------------------------------------------------
(* The two backends side by side: the same calls, at the same times, on a  *)
(* ContextStore built with USE_REDIS=false (memory_store,                  *)
(* memory_timestamps, observed in api.op) and on one built with            *)
(* USE_REDIS=true (redis.data, observed in redis.op).  Contexts hold the   *)
(* values that handlers may put into them: a dict of strings, a tuple, a   *)
(* set.                                                                    *)

BackendMappings ==
    { EmptyDict, [github |-> Issues],
      [github |-> PyTuple(<<"owner", "repo">>)],
      [github |-> PySet(<<"bug">>)] }

\* the call made on the Redis-backed store: what it returned, whether an
\* exception left it (raises), whether one was raised inside it (erred)
RedisCalled(name, sid, arg, ret, raises, erred) ==
    [name |-> name, sid |-> sid, arg |-> arg, ret |-> ret, raises |-> raises,
     erred |-> erred]

StoreContextBoth(sessions, mappings, faults) ==
    /\ pc = "idle"
    /\ \E sid \in sessions, context \in mappings, fault \in faults :
        LET m == store_context(memory_store, memory_timestamps, sid, context, now)
            r == store_context_use_redis(redis.data, sid, context, now, fault)
        IN  /\ memory_store' = m.store
            /\ memory_timestamps' = m.stamps
            /\ api' = [op |-> Some(Called("store_context", sid, context,
                                          Some(Bool(m.ret)))),
                       written |-> AbstractPut(api.written, sid, context, now)]
            /\ redis' = [data |-> r.data,
                         op |-> Some(RedisCalled("store_context", sid, context,
                                     Some(Bool(r.ret)), r.raises,
                                     StoreErred(redis.data, sid, context, now,
                                                fault)))]
    /\ UNCHANGED <<now, ticks, pc, session_id, state, result, calls,
                   dispatched, other, trace>>

GetContextBoth(sessions, faults) ==
    /\ pc = "idle"
    /\ \E sid \in sessions, fault \in faults :
        LET m == get_context(memory_store, memory_timestamps, sid, now)
            r == get_context_use_redis(redis.data, sid, now, fault)
        IN  /\ memory_store' = m.store
            /\ memory_timestamps' = m.stamps
            /\ api' = [op |-> Some(Called("get_context", sid, EmptyDict, m.ret)),
                       written |-> AbstractGet(api.written, sid, now)]
            /\ redis' = [data |-> r.data,
                         op |-> Some(RedisCalled("get_context", sid, EmptyDict,
                                     r.ret, r.raises,
                                     GetErred(redis.data, sid, now, fault)))]
    /\ UNCHANGED <<now, ticks, pc, session_id, state, result, calls,
                   dispatched, other, trace>>

UpdateContextBoth(sessions, updates, faults) ==
    /\ pc = "idle"
    /\ \E sid \in sessions, update_data \in updates, fault \in faults :
        LET m == update_context(memory_store, memory_timestamps, sid,
                                update_data, now)
            r == update_context_use_redis(redis.data, sid, update_data, now,
                                          fault)
            w == AbstractGet(api.written, sid, now)
            existing == IF Live(w, sid, now) THEN w[sid].mapping[1] ELSE EmptyDict
        IN  /\ memory_store' = m.store
            /\ memory_timestamps' = m.stamps
            /\ api' = [op |-> Some(Called("update_context", sid, update_data,
                                          Some(Bool(m.ret)))),
                       written |-> AbstractPut(w, sid,
                                               Update(existing, update_data), now)]
            /\ redis' = [data |-> r.data,
                         op |-> Some(RedisCalled("update_context", sid,
                                     update_data, Some(Bool(r.ret)), r.raises,
                                     UpdateErred(redis.data, sid, update_data,
                                                 now, fault)))]
    /\ UNCHANGED <<now, ticks, pc, session_id, state, result, calls,
                   dispatched, other, trace>>

DeleteContextBoth(sessions, faults) ==
    /\ pc = "idle"
    /\ \E sid \in sessions, fault \in faults :
        LET m == delete_context(memory_store, memory_timestamps, sid)
            r == delete_context_use_redis(redis.data, sid, now, fault)
        IN  /\ memory_store' = m.store
            /\ memory_timestamps' = m.stamps
            /\ api' = [op |-> Some(Called("delete_context", sid, EmptyDict,
                                          Some(Bool(m.ret)))),
                       written |-> AbstractDelete(api.written, sid)]
            /\ redis' = [data |-> r.data,
                         op |-> Some(RedisCalled("delete_context", sid,
                                     EmptyDict, Some(Bool(r.ret)), r.raises,
                                     DeleteErred(redis.data, sid, now, fault)))]
    /\ UNCHANGED <<now, ticks, pc, session_id, state, result, calls,
                   dispatched, other, trace>>

\* put, get and delete calls and clock advances while the Redis server
\* answers every command
NextBackends ==
    \/ Elapse
    \/ StoreContextBoth(StoreSessions, BackendMappings, {"none"})
    \/ GetContextBoth(StoreSessions, {"none"})
    \/ DeleteContextBoth(StoreSessions, {"none"})

SpecBackends == Init /\ [][NextBackends]_vars

\* the four methods while any one Redis command of a call may fail
NextRedis ==
    \/ Elapse
    \/ StoreContextBoth({"s1"}, BackendMappings, Faults)
    \/ GetContextBoth({"s1"}, Faults)
    \/ UpdateContextBoth({"s1"}, Updates, Faults)
    \/ DeleteContextBoth({"s1"}, Faults)

SpecRedis == Init /\ [][NextRedis]_vars

\* update_context on a session whose context has a key of its own, while
\* any one Redis command of a call may fail
MergeMappings == {[github |-> Issues]}
MergeUpdates == {[outreach |-> Issues], [github |-> Repo]}

NextMergeRedis ==
    \/ Elapse
    \/ StoreContextBoth({"s1"}, MergeMappings, Faults)
    \/ GetContextBoth({"s1"}, Faults)
    \/ UpdateContextBoth({"s1"}, MergeUpdates, Faults)
    \/ DeleteContextBoth({"s1"}, Faults)

SpecMergeRedis == Init /\ [][NextMergeRedis]_vars

\* run_workflow of an orchestrator whose ContextStore uses Redis, while a
\* Redis command of the load or of the save may fail.
StartWorkflowRedis(inputs, args, maxCalls, faults) ==
    /\ pc = "idle"
    /\ calls < maxCalls
    /\ \E user_input \in inputs, arg \in args, fault \in faults :
        LET sid == ResolveSessionId(arg, calls + 1)
            got == get_context_use_redis(redis.data, sid, now, fault)
            held == redis_get(redis.data, redis_key(sid), now)
        IN  /\ session_id' = sid
            /\ redis' = [data |-> got.data,
                         op |-> Some(RedisCalled("get_context", sid, EmptyDict,
                                     got.ret, got.raises,
                                     GetErred(redis.data, sid, now, fault)))]
            /\ state' = initial_state(user_input, got.ret)
            /\ trace' = [NoTrace EXCEPT
                            !.arg = arg, !.gets = GetCalls(sid),
                            !.before = IF held = None THEN None
                                       ELSE Some(json_loads(held[1])),
                            !.erred = IF GetErred(redis.data, sid, now, fault)
                                      THEN <<"get_context">> ELSE <<>>]
    /\ calls' = calls + 1
    /\ result' = None
    /\ pc' = "parse_intent"
    /\ UNCHANGED <<memory_store, memory_timestamps, now, ticks, dispatched,
                   api, other>>

FinishWorkflowRedis(faults) ==
    /\ pc = "END"
    /\ LET storeCalls == StoreCalls(state, session_id)
       IN  IF storeCalls = <<>>
           THEN UNCHANGED <<redis, trace>>
           ELSE \E fault \in faults :
                LET c == storeCalls[1]
                    r == store_context_use_redis(redis.data, c.session_id,
                                                 c.context, now, fault)
                IN  /\ redis' = [data |-> r.data,
                                 op |-> Some(RedisCalled("store_context",
                                             c.session_id, c.context,
                                             Some(Bool(r.ret)), r.raises,
                                             StoreErred(redis.data,
                                                        c.session_id,
                                                        c.context, now,
                                                        fault)))]
                    /\ trace' = [trace EXCEPT
                                    !.puts = @ \o storeCalls,
                                    !.erred = IF r.ret THEN @
                                              ELSE Append(@, "store_context")]
    /\ result' = Some(Envelope(state, session_id))
    /\ pc' = "idle"
    /\ UNCHANGED <<memory_store, memory_timestamps, now, ticks, session_id,
                   state, calls, dispatched, api, other>>

NextTurnRedis ==
    \/ Tick
    \/ StartWorkflowRedis({"list open issues for owner/repo"}, {Some("s1")},
                          MaxCalls, {"none", "get", "expire"})
    \/ ParseIntent(ExpiryClassifierOutcomes)
    \/ Dispatch(ExpiryAgentOutcomes, MaxDispatch)
    \/ FinishWorkflowRedis({"none", "setex"})

SpecTurnRedis == Init /\ [][NextTurnRedis]_vars

-----------------------------------------------------------------------------
(* Observations used by the properties.                                    *)

Dispatches == Len(trace.outcomes)
Returned == pc = "idle" /\ result # None
Running == pc \in {"parse_intent", "END"} \cup AgentNodes

-----------------------------------------------------------------------------
SameUpToCase(text, name) ==
    /\ Len(text) = Len(name)
    /\ \A i \in DOMAIN name :
          \/ text[i] = name[i]
          \/ \E j \in DOMAIN LowerCase :
                LowerCase[j] = name[i] /\ UpperCase[j] = text[i]

CompletedBy(a) ==
    /\ Returned
    /\ trace.arg # None /\ trace.arg # Some("")
    /\ trace.classified = 1
    /\ ~trace.answer[1].raises
    /\ SameUpToCase(trace.answer[1].text, Spelling[a])
    /\ Dispatches = 1
    /\ ~trace.outcomes[1].outcome.raises
    /\ {"response", "context", "complete"}
          \subseteq DOMAIN trace.outcomes[1].outcome.result
    /\ trace.outcomes[1].outcome.result.complete

Occurs(name, text) ==
    \E off \in 0..Len(text) :
        /\ off + Len(name) <= Len(text)
        /\ SameUpToCase(SubSeq(text, off + 1, off + Len(name)), name)

JustClassified == trace.classified = Dispatches + 1 /\ Running

AgentOfNode(node) == IF node = "github_agent" THEN "github" ELSE node

LastRaised == Dispatches >= 1 /\ trace.outcomes[Dispatches].outcome.raises

NotRetried == \A i \in 1..Dispatches - 1 : ~trace.outcomes[i].outcome.raises

OutputLeftBy(agent_result) ==
    IF DOMAIN agent_result = {} THEN None
    ELSE IF "response" \in DOMAIN agent_result THEN Some(agent_result.response)
    ELSE Some("")

C9_OneGetAtMostOnePut ==
    calls > 0 =>
        /\ trace.gets = <<session_id>>
        /\ Len(trace.puts) <= 1
        /\ \A i \in DOMAIN trace.puts : trace.puts[i].session_id = session_id
        /\ Running => trace.puts = <<>>

C9_Witness ==
    /\ Returned /\ Dispatches = 2 /\ state.error # None
    /\ Len(trace.puts) = 1 /\ trace.gets = <<"s1">>

(* C10: when a turn ends with an error after at least one handler result   *)
(* was merged into the context, run_workflow still writes the final        *)
(* context, with the merged fragment, to the store.                        *)
Finishing == pc = "END" /\ pc' = "idle"

ErrorAfterMerge == state.error # None /\ Len(state.history) >= 1

NothingMerged == Len(state.history) = 0

ReturnedError(i) ==
    /\ ~trace.outcomes[i].outcome.raises
    /\ "error" \in DOMAIN trace.outcomes[i].outcome.result

IsClassificationError(e) == e # None /\ e[1][1] = "Error parsing intent: "

ClassificationFailed(answer) ==
    \/ answer.raises
    \/ \A a \in agents : ~Occurs(Spelling[a], answer.text)

GetStep(s) ==
    /\ pc = "idle" /\ now' = now
    /\ api'.op # None
    /\ api'.op[1].name = "get_context" /\ api'.op[1].sid = s

AfterStore(s) ==
    /\ api.op # None
    /\ api.op[1].name = "store_context" /\ api.op[1].sid = s
    /\ now - api.written[s].since <= context_ttl

C17_DeletedStaysAbsent ==
    [][\A s \in StoreSessions :
          (GetStep(s) /\ Deleted(api.written, s))
              => /\ api'.op[1].ret = None
                 /\ s \notin DOMAIN memory_store']_vars

C17_Witness ==
    /\ api.op = Some(Called("get_context", "s1", EmptyDict, None))
    /\ Deleted(api.written, "s1")
    /\ now - api.written["s1"].touched <= context_ttl

(* C18: a successful get_context and a store_context both restart the      *)
(* session's TTL: a get within the TTL of the last write or successful     *)
(* read returns the mapping, however long ago it was first written, and    *)
(* after either call the session's timestamp is the time of the call.      *)
StoreStep(s) ==
    /\ pc = "idle" /\ now' = now
    /\ api'.op # None /\ api'.op # api.op
    /\ api'.op[1].name = "store_context" /\ api'.op[1].sid = s

C18_SlidingExpiry ==
    [][\A s \in StoreSessions :
          /\ (GetStep(s) /\ Live(api.written, s, now))
                => /\ api'.op[1].ret = api.written[s].mapping
                   /\ memory_timestamps'[s] = now
          /\ StoreStep(s) => memory_timestamps'[s] = now]_vars

C18_Witness ==
    /\ api.op = Some(Called("get_context", "s1", EmptyDict,
                            Some([github |-> Issues])))
    /\ api.written["s1"].touched = now
    /\ now - api.written["s1"].since > context_ttl

(* C19: a session neither written nor read for longer than the TTL, and    *)
(* not deleted, is not returned by the next get_context: the call returns  *)
(* None without an error, and a run_workflow call made then starts from    *)
(* the state it starts from for a session that was never stored.           *)
C19_SilentExpiry ==
    [][\A s \in StoreSessions :
          (GetStep(s) /\ Untouched(api.written, s, now))
              => /\ api'.op[1].ret = None
                 /\ s \notin DOMAIN memory_store'
                 /\ pc' = "parse_intent"
                       => /\ state' = AgentState(state'.user_input, EmptyDict,
                                                 <<>>, None, None, None)
                          /\ trace'.before = None]_vars

C19_Witness ==
    /\ pc = "parse_intent" /\ trace.classified = 0 /\ calls = 2
    /\ api.op = Some(Called("get_context", "s1", EmptyDict, None))
    /\ "s1" \in DOMAIN api.written
    /\ api.written["s1"].gone = "expired"
    /\ state.context = EmptyDict

(* C20: every record whose TTL since its last access has elapsed is        *)
(* eventually removed from memory_store, also when its session is never    *)
(* read, written or deleted again.                                         *)
ExpiredInStore(s) == s \in DOMAIN memory_store /\ Untouched(api.written, s, now)

C20_EventuallyPurged ==
    \A s \in IdleSessions : ExpiredInStore(s) ~> (s \notin DOMAIN memory_store)

C20_ExpiredKept ==
    /\ api.op # None /\ api.op[1].name = "store_context"
    /\ api.written[api.op[1].sid].since = now
    /\ \A s \in IdleSessions : ExpiredInStore(s)

-----------------------------------------------------------------------------
(* Observations of the dispatches of the current call.                     *)

\* the i-th dispatch of the call returned a dict
ReturnedNormally(i) == i \in 1..Dispatches /\ ~trace.outcomes[i].outcome.raises

\* the context fragment of the dict that the i-th dispatch returned
Fragment(i) == Get(trace.outcomes[i].outcome.result, "context", EmptyDict)

\* the dict that the i-th dispatch returned says that the task is complete
SaysComplete(i) == Get(trace.outcomes[i].outcome.result, "complete", FALSE)

\* the turn context before and after the i-th dispatch
ContextBefore(i) == trace.outcomes[i].args.context
ContextAfter(i) ==
    IF i < Dispatches THEN trace.outcomes[i + 1].args.context ELSE state.context

\* C28: after a dispatch that returns normally the turn context is the
\* previous context with every top-level key of the handler's fragment
\* replaced by the fragment's value as a whole, and every other top-level
\* key unchanged.
C28_ShallowMerge ==
    \A i \in 1..Dispatches :
        ReturnedNormally(i) =>
            /\ DOMAIN ContextAfter(i) = DOMAIN ContextBefore(i) \cup DOMAIN Fragment(i)
            /\ \A k \in DOMAIN Fragment(i) : ContextAfter(i)[k] = Fragment(i)[k]
            /\ \A k \in DOMAIN ContextBefore(i) \ DOMAIN Fragment(i) :
                    ContextAfter(i)[k] = ContextBefore(i)[k]

\* a handler replaced the github namespace, which held the key issues, by
\* a value without it: the nested sibling key is lost
C28_Witness ==
    /\ ReturnedNormally(1)
    /\ ContextBefore(1) = [github |-> Issues]
    /\ Fragment(1) = [github |-> Repo]
    /\ ContextAfter(1) = [github |-> Repo]

C30_CompleteEndsTurn ==
    \A i \in 1..Dispatches :
        (ReturnedNormally(i) /\ SaysComplete(i)) =>
            /\ i = Dispatches
            /\ trace.classified = i
            /\ pc \in {"END", "idle"}
            /\ Returned => result[1].error = None

\* a turn that ended with its second handler reporting complete=true
C30_Witness ==
    /\ Returned
    /\ Dispatches = 2
    /\ ReturnedNormally(2) /\ SaysComplete(2)
    /\ result[1].error = None

\* a run_workflow call has built its initial state and nothing else
JustStarted == pc = "parse_intent" /\ trace.classified = 0 /\ Dispatches = 0

\* C26: every run_workflow call starts at parse_intent with empty history,
\* no selected capability, no output, no error, and the context that the
\* store held for the session when the call was made (empty when it held
\* none); nothing else of an earlier call is in the state.
C26_FreshTurn ==
    JustStarted =>
        state = AgentState("list open issues for owner/repo",
                           IF trace.before = None THEN EmptyDict
                           ELSE trace.before[1],
                           <<>>, None, None, None)

\* the second call on a session whose first call dispatched two handlers:
\* it starts with the context that the first call stored
C26_Witness ==
    /\ JustStarted
    /\ calls = 2
    /\ dispatched = 2
    /\ trace.before = Some([github |-> Repo])
    /\ state.context = [github |-> Repo]

\* both callers have a returned call, and each of the two calls loaded the
\* context before either stored its own: both found nothing stored
BothReturned == Returned /\ other.pc = "idle" /\ other.result # None
Overlapped ==
    /\ BothReturned
    /\ trace.before = None /\ other.trace.before = None
    /\ trace.puts # <<>> /\ other.trace.puts # <<>>

NotCalledOn(b) == api' = api \/ api'.op[1].sid # b

\* C25: a step of run_workflow or of a store operation for one session
\* changes, for every other session, neither what get returns for it (its
\* mapping while it is within its TTL, absent otherwise) nor, while it is
\* within its TTL, its expiry clock.
C25_SessionsIndependent ==
    [][now' = now =>
        \A b \in DOMAIN memory_store \cup StoreSessions :
            NotCalledOn(b) =>
                /\ Visible(memory_store', memory_timestamps', b, now)
                        = Visible(memory_store, memory_timestamps, b, now)
                /\ Visible(memory_store, memory_timestamps, b, now) # None
                        => memory_timestamps'[b] = memory_timestamps[b]]_vars

\* a turn of s1 has stored its context and the sweep that this triggered
\* purged the idle sessions, while s2, written earlier, is still held
C25_Witness ==
    /\ Returned
    /\ api.op = Some(Called("store_context", "s1", [github |-> Issues],
                            Some(Bool(TRUE))))
    /\ "f1" \notin DOMAIN memory_store
    /\ Visible(memory_store, memory_timestamps, "s2", now) # None

\* C27: for every sequence of put, get and delete calls and clock
\* advances, the store with the in-memory backend and the store with the
\* Redis backend return the same results.
C27_BackendsAgree ==
    (api.op # None /\ redis.op # None) => api.op[1].ret = redis.op[1].ret

\* a tuple stored and read back: the in-memory store returns the tuple, the
\* Redis store a list
C27_TupleBecomesList ==
    /\ api.op # None /\ redis.op # None
    /\ api.op[1].name = "get_context"
    /\ api.op[1].ret = Some([github |-> PyTuple(<<"owner", "repo">>)])
    /\ redis.op[1].ret = Some([github |-> PyList(<<"owner", "repo">>)])

\* no exception leaves a method of the store
StoreNeverRaises == redis.op # None => ~redis.op[1].raises

\* a call inside which a storage error was raised returned None (get) or
\* False (put, update, delete)
StorageErrorsReported ==
    (redis.op # None /\ redis.op[1].erred) =>
        redis.op[1].ret = IF redis.op[1].name = "get_context" THEN None
                          ELSE Some(Bool(FALSE))

\* C22: get_context, store_context, update_context and delete_context
\* never raise: a storage error inside them is caught and reported as None
\* (get) or False (put, update, delete).
C22_ErrorsContained == StoreNeverRaises /\ StorageErrorsReported

\* update_context returned True although the read inside it failed
C22_UpdateHidesError ==
    /\ redis.op # None
    /\ redis.op[1].name = "update_context"
    /\ redis.op[1].erred
    /\ ~redis.op[1].raises
    /\ redis.op[1].ret = Some(Bool(TRUE))

\* what the Redis server holds for a session at time t: the stored text
\* and its expiry time, None when the key is absent or expired
LiveEntry(rd, sid, t) ==
    IF redis_key(sid) \in DOMAIN RedisAt(rd, t) THEN Some(rd[redis_key(sid)])
    ELSE None

\* the step is a store_context call that returned ret
PutStep(ret) ==
    /\ now' = now
    /\ redis'.op # None
    /\ redis'.op[1].name = "store_context"
    /\ redis'.op[1].ret = Some(Bool(ret))

HistoryBefore(i) == trace.outcomes[i].history
HistoryAfter(i) ==
    IF i < Dispatches THEN trace.outcomes[i + 1].history ELSE state.history

\* C31: the history of a turn only grows: a dispatch that returns appends
\* one entry for its capability, input and output after the entries that
\* were there, a dispatch that raises appends none, and the number of
\* entries is the number of dispatches that returned.
C31_HistoryAppendOnly ==
    /\ Running \/ Returned =>
         Len(state.history) =
            Cardinality({i \in 1..Dispatches : ReturnedNormally(i)})
    /\ \A i \in 1..Dispatches :
        /\ SubSeq(HistoryAfter(i), 1, Len(HistoryBefore(i))) = HistoryBefore(i)
        /\ Len(HistoryAfter(i)) =
               Len(HistoryBefore(i)) + (IF ReturnedNormally(i) THEN 1 ELSE 0)
        /\ ReturnedNormally(i) =>
               HistoryAfter(i)[Len(HistoryAfter(i))] =
                   [agent |-> AgentOfNode(trace.outcomes[i].node),
                    input |-> state.user_input,
                    output |-> Get(trace.outcomes[i].outcome.result,
                                   "response", "")]

\* two handlers returned in one turn: two entries, in dispatch order
C31_Witness ==
    /\ Dispatches = 2
    /\ ReturnedNormally(1) /\ ReturnedNormally(2)
    /\ Len(state.history) = 2
    /\ trace.outcomes[1].node = "github_agent"
    /\ trace.outcomes[2].node = "outreach"
    /\ state.history[1].agent = "github"
    /\ state.history[2].agent = "outreach"

\* the context that the fragments of the dispatches i..Dispatches that
\* returned make of the context c, merged in dispatch order
RECURSIVE MergedFrom(_, _)
MergedFrom(i, c) ==
    IF i > Dispatches THEN c
    ELSE MergedFrom(i + 1, IF ReturnedNormally(i) THEN Update(c, Fragment(i))
                           ELSE c)

NoCompleteField(i) ==
    ReturnedNormally(i) /\ "complete" \notin DOMAIN trace.outcomes[i].outcome.result

\* C35: a handler result without a complete field does not end the turn:
\* the state after it has no error and the turn is at the routing step, or
\* has gone through it, as after a result with complete=false.
C35_MissingCompleteContinues ==
    (Dispatches >= 1 /\ NoCompleteField(Dispatches)) =>
        \/ pc = "parse_intent" /\ state.error = None
                /\ trace.classified = Dispatches
        \/ trace.classified = Dispatches + 1

\* a turn was routed again after a handler returned a context fragment and
\* no complete field
C35_Witness ==
    /\ Dispatches = 1
    /\ trace.outcomes[1].outcome = Returns([context |-> [outreach |-> Issues]])
    /\ trace.classified = 2
    /\ state.context = [outreach |-> Issues]

\* C38: run_workflow never stores an empty mapping: a call whose final
\* context is empty makes no store_context call, and a session that had no
\* record when the call began has none when it returns.
C38_NoEmptyPut ==
    /\ \A j \in 1..Len(trace.puts) : trace.puts[j].context # EmptyDict
    /\ (Returned /\ state.context = EmptyDict) =>
        /\ trace.puts = <<>>
        /\ trace.before = None => session_id \notin DOMAIN memory_store

\* a call for a session without record, in which a handler ran, ended with
\* an empty context: the session still has no record
C38_Witness ==
    /\ Returned
    /\ Dispatches >= 1
    /\ state.context = EmptyDict
    /\ trace.before = None
    /\ session_id = "s1"
    /\ "s1" \notin DOMAIN memory_store

\* C37: in the in-memory backend, between operations carried out one at
\* a time, memory_store and memory_timestamps hold the same session ids.
C37_SameKeys == DOMAIN memory_store = DOMAIN memory_timestamps

\* s1 was written and then deleted, and the sweep has removed the sessions
\* written at the start, while s2 still has its record
C37_Witness ==
    /\ api.op # None
    /\ api.op[1].name = "delete_context"
    /\ api.op[1].sid = "s1"
    /\ Deleted(api.written, "s1")
    /\ "s1" \notin DOMAIN memory_store
    /\ "f1" \notin DOMAIN memory_store
    /\ "s2" \in DOMAIN memory_store

\* the step is a call of store_context, directly or from update_context
WriteStep ==
    /\ now' = now
    /\ api'.op # None
    /\ api'.op[1].name \in {"store_context", "update_context"}

\* C36: a step that writes one session, sweep included, leaves every other
\* session that is within its TTL with its mapping and its timestamp, and
\* leaves the session written with a record; a direct store_context leaves
\* it with the mapping passed.
C36_SweepSparesLive ==
    [][WriteStep =>
        /\ \A s \in DOMAIN memory_store \ {api'.op[1].sid} :
              Visible(memory_store, memory_timestamps, s, now) # None =>
                /\ s \in DOMAIN memory_store'
                /\ s \in DOMAIN memory_timestamps'
                /\ memory_store'[s] = memory_store[s]
                /\ memory_timestamps'[s] = memory_timestamps[s]
        /\ api'.op[1].sid \in DOMAIN memory_store'
        /\ api'.op[1].sid \in DOMAIN memory_timestamps'
        /\ api'.op[1].name = "store_context" =>
                memory_store'[api'.op[1].sid] = api'.op[1].arg]_vars

\* the sweep ran in the write of s1 and removed the eight sessions written
\* at the start; s2, whose age is exactly the TTL, was kept
C36_Witness ==
    /\ api.op # None
    /\ api.op[1].name = "store_context"
    /\ api.op[1].sid = "s1"
    /\ DOMAIN memory_store = {"s1", "s2"}
    /\ memory_timestamps["s1"] = now
    /\ now - memory_timestamps["s2"] = context_ttl

\* the step is an update_context call on the in-memory store that
\* returned True
MemoryUpdateStep ==
    /\ now' = now
    /\ api'.op # None
    /\ api'.op[1].name = "update_context"
    /\ api'.op[1].ret = Some(Bool(TRUE))

\* the in-memory store holds the merge, written at the time of the call
MemoryMerged ==
    LET sid == api'.op[1].sid
        cur == Visible(memory_store, memory_timestamps, sid, now)
        existing == IF cur = None THEN EmptyDict ELSE cur[1]
    IN  /\ sid \in DOMAIN memory_store'
        /\ sid \in DOMAIN memory_timestamps'
        /\ memory_store'[sid] = Update(existing, api'.op[1].arg)
        /\ memory_timestamps'[sid] = now

\* the step is an update_context call on the Redis store that returned True
RedisUpdateStep ==
    /\ now' = now
    /\ redis'.op # None
    /\ redis'.op[1].name = "update_context"
    /\ redis'.op[1].ret = Some(Bool(TRUE))

\* the Redis server holds the merge, to expire a TTL after the call
RedisMerged ==
    LET sid == redis'.op[1].sid
        cur == LiveEntry(redis.data, sid, now)
        existing == IF cur = None THEN EmptyDict ELSE json_loads(cur[1].value)
        merged == json_dumps(Update(existing, redis'.op[1].arg))
    IN  /\ merged # None
        /\ LiveEntry(redis'.data, sid, now) =
              Some([value |-> merged[1], expire_at |-> now + context_ttl])

\* C39: update_context leaves the session holding the shallow merge of its
\* current unexpired context, or of an empty mapping when there is none,
\* with update_data (update_data wins on shared top-level keys, the other
\* keys are kept), and restarts the session's expiry clock.
C39_UpdateMerges ==
    [][/\ MemoryUpdateStep => MemoryMerged
       /\ RedisUpdateStep => RedisMerged]_vars

\* update_context returned True on both stores for a session that held
\* the github fragment: the in-memory store holds both fragments, the Redis
\* store, whose read failed, holds update_data alone
C39_OtherKeysLost ==
    /\ redis.op # None
    /\ redis.op[1].name = "update_context"
    /\ redis.op[1].arg = [outreach |-> Issues]
    /\ redis.op[1].erred
    /\ redis.op[1].ret = Some(Bool(TRUE))
    /\ "s1" \in DOMAIN memory_store
    /\ memory_store["s1"] = [github |-> Issues, outreach |-> Issues]
    /\ LiveEntry(redis.data, "s1", now) # None
    /\ LiveEntry(redis.data, "s1", now)[1].value = [outreach |-> Issues]

\* the node that the routing step's classification selects: the node of the
\* registered name that the answer spells, END when it spells none or when
\* the classification call raised
SelectedNode ==
    AfterParseIntent([current_agent |->
        IF trace.answer[1].raises THEN None
        ELSE Lookup(lower(strip(trace.answer[1].text)))])

Quiescent == pc = "idle" /\ other.pc = "idle"

\* C34: when store_context and delete_context on one session interleave
\* in the in-memory backend, the session ends as one of the two serial
\* orders leaves it: with its mapping and its timestamp, or with neither.
C34_SerialOutcome ==
    Quiescent => DOMAIN memory_store = DOMAIN memory_timestamps

\* both calls have returned True; s1 has a mapping and no timestamp, and
\* get_context returns None for it
C34_MappingWithoutTimestamp ==
    /\ Quiescent
    /\ result = Some(Bool(TRUE))
    /\ other.result = Some(Bool(TRUE))
    /\ "s1" \in DOMAIN memory_store
    /\ "s1" \notin DOMAIN memory_timestamps
    /\ get_context(memory_store, memory_timestamps, "s1", now).ret = None

====
